---- MODULE Spec2Model ----
(***************************************************************************)
(* A model of the job-splitter coordinator, src/src/framework.py:          *)
(* make_config_files, get_machines and run_jobs.  One behaviour is one     *)
(* call of run_jobs in a working directory whose files are given by Init.  *)
(***************************************************************************)
EXTENDS Integers, Sequences, FiniteSets, TLC

\* ------------------------------------------------------------------ bounds

MaxMachines == 2
MaxJobs == 3
CpuCount == 2

\* The largest backupCount a handler is made with, the most rollovers and the most records
\* of one log file.
MaxBackupCount == 3
MaxRollovers == 4
MaxRecords == 2

\* ----------------------------------------------------- python value helpers

RECURSIVE Sum(_)
Sum(s) == IF s = <<>> THEN 0 ELSE Head(s) + Sum(Tail(s))

\* A python slice bound k, clamped into 0..n as slicing does (negative counts from the end).
PyClamp(n, k) ==
    IF k < 0 THEN (IF n + k < 0 THEN 0 ELSE n + k)
    ELSE (IF k > n THEN n ELSE k)

\* s[a:b]
PySlice(s, a, b) ==
    LET lo == PyClamp(Len(s), a)
        hi == PyClamp(Len(s), b)
    IN  IF lo >= hi THEN <<>> ELSE SubSeq(s, lo + 1, hi)

\* s[:k]
PyPrefix(s, k) == PySlice(s, 0, k)

\* s[i] is defined (no IndexError) for a sequence of length n
PyIndexOK(n, i) == -n <= i /\ i < n

\* s[i], negative i counting from the end
PyIndex(s, i) == IF i < 0 THEN s[Len(s) + i + 1] ELSE s[i + 1]

\* Optional values: None is the empty sequence, a value v is <<v>>.
None == <<>>
Some(v) == <<v>>
The(o) == o[1]

\* ---------------------------------------------------------------- strings
\* A string is a sequence of one-character strings.

LowerChar(c) ==
    CASE c = "Y" -> "y"
      [] c = "N" -> "n"
      [] c = "E" -> "e"
      [] c = "S" -> "s"
      [] c = "O" -> "o"
      [] c = "A" -> "a"
      [] OTHER -> c

\* str.lower()
Lower(s) == [i \in 1..Len(s) |-> LowerChar(s[i])]

\* str.startswith(prefix)
StartsWith(s, prefix) ==
    /\ Len(s) >= Len(prefix)
    /\ SubSeq(s, 1, Len(prefix)) = prefix

Digits == {"0", "1", "2", "3", "4", "5", "6", "7", "8", "9"}

DigitVal(c) ==
    CASE c = "0" -> 0 [] c = "1" -> 1 [] c = "2" -> 2 [] c = "3" -> 3 [] c = "4" -> 4
      [] c = "5" -> 5 [] c = "6" -> 6 [] c = "7" -> 7 [] c = "8" -> 8 [] c = "9" -> 9

RECURSIVE StripLeft(_)
StripLeft(s) == IF s # <<>> /\ Head(s) = " " THEN StripLeft(Tail(s)) ELSE s

RECURSIVE StripRight(_)
StripRight(s) ==
    IF s # <<>> /\ s[Len(s)] = " " THEN StripRight(SubSeq(s, 1, Len(s) - 1)) ELSE s

RECURSIVE DigitsVal(_)
DigitsVal(s) ==
    IF s = <<>> THEN 0 ELSE 10 * DigitsVal(SubSeq(s, 1, Len(s) - 1)) + DigitVal(s[Len(s)])

\* int(resp): surrounding blanks stripped, an optional sign, then one or more digits.
\* None when int() raises ValueError.
ParseInt(resp) ==
    LET t == StripRight(StripLeft(resp))
        signed == t # <<>> /\ Head(t) \in {"+", "-"}
        body == IF signed THEN Tail(t) ELSE t
    IN  IF body = <<>> \/ \E i \in 1..Len(body) : body[i] \notin Digits
        THEN None
        ELSE Some(IF signed /\ Head(t) = "-" THEN 0 - DigitsVal(body) ELSE DigitsVal(body))

NA == <<"N", "/", "A">>
YES == <<"y">>
NO == <<"n">>

\* ------------------------------------------------------------ configuration

MACHINES_CONFIG == "machines.json"
CSV_HEADER == "header.csv"
RUNNER_CONFIG == "runner.config"
LOG_TEMPLATE == "logging.template"

CONFIGS == <<MACHINES_CONFIG, CSV_HEADER, RUNNER_CONFIG, LOG_TEMPLATE>>

ConfigNames == {CONFIGS[i] : i \in 1..Len(CONFIGS)}

RESULTS_CSV == <<"results.csv">>

\* A roster entry is <<thread_weight, threads>>, as machines.json lists it.
RosterEntries == {<<0, 4>>, <<1, 2>>, <<3, 2>>}

RECURSIVE SeqsUpTo(_, _)
SeqsUpTo(S, n) ==
    IF n = 0 THEN {<<>>}
    ELSE LET shorter == SeqsUpTo(S, n - 1)
         IN  shorter \cup {Append(s, x) : s \in {t \in shorter : Len(t) = n - 1}, x \in S}

Rosters == SeqsUpTo(RosterEntries, MaxMachines)

\* The [results] section of runner.config.
ResultsSections ==
    { [file_name |-> <<"results.csv">>, compress |-> FALSE, include_start_time |-> FALSE,
       include_job_interval |-> FALSE, include_job_done_time |-> FALSE, include_job_id |-> FALSE],
      [file_name |-> <<"results.csv">>, compress |-> TRUE, include_start_time |-> FALSE,
       include_job_interval |-> FALSE, include_job_done_time |-> FALSE, include_job_id |-> TRUE],
      [file_name |-> <<"out.csv">>, compress |-> FALSE, include_start_time |-> TRUE,
       include_job_interval |-> TRUE, include_job_done_time |-> TRUE, include_job_id |-> TRUE],
      [file_name |-> <<"out.csv">>, compress |-> TRUE, include_start_time |-> TRUE,
       include_job_interval |-> TRUE, include_job_done_time |-> FALSE, include_job_id |-> FALSE] }

\* The files rows or headers can go to.
ResultFiles ==
    {r.file_name : r \in ResultsSections} \cup {Append(r.file_name, ".gz") : r \in ResultsSections}
        \cup {RESULTS_CSV}

\* The responses an operator may type at the identity prompt.
IdResponses ==
    { NA, <<"n", "/", "a">>, <<>>, <<"a", "b">>, <<"1", ".", "5">>,
      <<"0">>, <<"1">>, <<"2">>, <<"7">>, <<" ", "+", "7">>, <<"-", "1">>, <<"-", "9">> }

\* The responses an operator may type at the confirmation prompt.
ConfirmResponses ==
    { <<"y">>, <<"Y", "e", "s">>, <<"n">>, <<"N", "o">>, <<>>, <<"m", "a", "y", "b", "e">>, <<" ", "y">> }

\* The reduce_function arguments a caller may pass.
ReduceFunctions == {"picky", "raiser"}

\* The override_seed arguments a caller may pass: None or a byte string.
OverrideSeeds == {None, Some(<<>>), Some(<<7>>)}

\* ------------------------------------------------------------------- state

VARIABLES
    pc,             \* the position of run_jobs
    error,          \* the exception that left run_jobs, "" while there is none
    exit_status,    \* the status passed to exit(), -1 while the process has not exited
    config_files,   \* CONFIGS on disk: "absent", "user" (filled out) or "template"
    machines_json,  \* the roster the operator wrote to machines.json
    results_section,\* the [results] section the operator wrote to runner.config
    result_files,   \* the lines of every result file on disk
    machines,       \* get_machines()
    weights,
    resp,           \* the last response to the identity prompt
    ID,
    reduce_function,
    override_seed,
    lw,             \* len(working_set)
    TOTAL,
    entropy,
    seed,
    shuffled,       \* the original indices of all jobs, in the order the shuffle left them
    indexed_set,    \* the original indices of the jobs, in the order this run holds them
    START,
    STOP,
    response,       \* the last response to the confirmation prompt
    num_cores,
    setup_called,
    clock,          \* the value the next time() call returns
    start_time,
    last_time,
    current,        \* the accumulator
    pending,        \* the jobs submitted to the pool and not yet completed
    idx,            \* the number of completions processed
    progress,       \* the last progress report <<idx, len(working_set)>>
    reduce_raised,  \* the number of reduce_function calls that raised
    parsed,         \* the number of parse_function calls
    arrivals,       \* the job ids of the processed completions, in the order they arrived
    steps,          \* what the loop body did for the last completion, in order
    peer,           \* what another machine's run showed at its confirmation prompt, or None
    renicer,        \* where the renicer thread is
    renicer_next,   \* how many processes of pool._pool the for loop of the renicer has been through
    reniced,        \* the worker processes whose priority the renicer has lowered
    niceness,       \* the niceness of the coordinating process
    handler,        \* the ZippedRotatingFileHandler: "none", "open" or "closed"
    backupCount,    \* its backupCount
    log_file,       \* the content of baseFilename, or None when there is no such file
    log_archives,   \* log_archives[i]: the content zipped in baseFilename.i.zip, or None
    log_zip,        \* the entries of baseFilename.zip, or None
    rollovers       \* the number of rollovers so far

vars == <<pc, error, exit_status, config_files, machines_json, results_section, result_files,
          machines, weights, resp, ID, reduce_function, override_seed, lw, TOTAL, entropy, seed,
          indexed_set, START, STOP, response, num_cores, setup_called, clock, start_time,
          last_time, current, pending, idx, progress, reduce_raised, parsed, shuffled, arrivals,
          steps, peer, renicer, renicer_next, reniced, niceness, handler, backupCount, log_file,
          log_archives, log_zip, rollovers>>

disk == <<config_files, machines_json, results_section>>
identity == <<resp, ID>>
plan == <<reduce_function, override_seed, lw, TOTAL, entropy, seed, shuffled, indexed_set, START,
          STOP>>
loop == <<clock, start_time, last_time, current, pending, idx, progress, reduce_raised, parsed,
          arrivals, steps>>

\* What the actions of one run of run_jobs never touch.
throttle == <<renicer, renicer_next, reniced, niceness>>
logs == <<handler, backupCount, log_file, log_archives, log_zip, rollovers>>
aside == <<peer, throttle, logs>>

\* The state of a run of run_jobs, and of the other machine's.
coordinator_run ==
    <<pc, error, exit_status, disk, result_files, machines, weights, identity, plan, response,
      num_cores, setup_called, loop, peer>>

\* What the renicer thread never touches.
coordinator == <<coordinator_run, logs>>

\* ------------------------------------------------------- make_config_files

\* any_triggered: some configuration file was missing and has been created
AnyTriggered(files) == \E n \in ConfigNames : files[n] = "absent"

\* A make_config_files that opens with 'w': every file is rewritten from its template.
MakeConfigFilesOverwrite(files) == [n \in ConfigNames |-> "template"]

\* open('x') creates a missing file from its template and leaves an existing one alone
MakeConfigFilesResult(files) ==
    [n \in ConfigNames |-> IF files[n] = "absent" THEN "template" ELSE files[n]]

\* ------------------------------------------------------------- the planner

\* weights = tuple(thread_weight * threads for thread_weight, threads in machines.values())
WeightsOf(roster) == [i \in 1..Len(roster) |-> roster[i][1] * roster[i][2]]

\* A planner that rounds START to the nearest integer instead of down.
PlanStartRounded(w, id, n) == (2 * Sum(PyPrefix(w, id)) * n + Sum(w)) \div (2 * Sum(w))

\* START = sum(weights[:ID]) * lw // TOTAL         (TOTAL # 0)
PlanStart(w, id, n) == (Sum(PyPrefix(w, id)) * n) \div Sum(w)

\* A planner that rounds STOP up instead of down.
PlanStopCeil(w, id, n) == (Sum(PyPrefix(w, id + 1)) * n + Sum(w) - 1) \div Sum(w)

\* STOP = sum(weights[:ID + 1]) * lw // TOTAL      (TOTAL # 0)
PlanStop(w, id, n) == (Sum(PyPrefix(w, id + 1)) * n) \div Sum(w)

\* ----------------------------------------------------- entropy and shuffle

RECURSIVE Flatten(_)
Flatten(ss) == IF ss = <<>> THEN <<>> ELSE Head(ss) \o Flatten(Tail(ss))

Bit(b) == IF b THEN 1 ELSE 0

SectionBytes(r) ==
    <<Bit(r.file_name = RESULTS_CSV), Bit(r.compress), Bit(r.include_start_time), Bit(r.include_job_interval),
      Bit(r.include_job_done_time), Bit(r.include_job_id)>>

\* name.read_bytes() of a filled-out configuration file
FileBytes(name, roster, section) ==
    CASE name = MACHINES_CONFIG -> Flatten(roster)
      [] name = RUNNER_CONFIG -> SectionBytes(section)
      [] OTHER -> <<>>

\* get_entropy, with the identity of the machine hashed along
GetEntropyWithIdentity(roster, section, n) ==
    Flatten([i \in 1..Len(CONFIGS) |-> FileBytes(CONFIGS[i], roster, section)]) \o <<n>>
        \o (IF ID = None THEN <<>> ELSE <<The(ID) + 1>>)

\* get_entropy(working_set): the digest of the configuration files' bytes, in the order of
\* CONFIGS, followed by the pickled working set.  The digest is taken as collision free:
\* it is the hashed byte string itself.
GetEntropy(roster, section, n) ==
    Flatten([i \in 1..Len(CONFIGS) |-> FileBytes(CONFIGS[i], roster, section)]) \o <<n>>

\* the seed, with the identity of the machine mixed in
SeedOfWithIdentity(override, ent) ==
    (IF override # None /\ The(override) # <<>> THEN The(override) ELSE ent)
        \o (IF ID = None THEN <<>> ELSE <<The(ID) + 1>>)

\* seed = override_seed or entropy
SeedOf(override, ent) ==
    IF override # None /\ The(override) # <<>> THEN The(override) ELSE ent

\* Random(seed).shuffle(s): a permutation of s that the seed determines
Shuffle(sd, s) ==
    IF s = <<>> THEN s
    ELSE LET k == Sum(sd) % Len(s)
         IN  SubSeq(s, k + 1, Len(s)) \o SubSeq(s, 1, k)

\* enumerate(working_set, start=1)
EnumeratedFromOne(n) == [i \in 1..n |-> i]

\* [(idx, ...) for idx, items in enumerate(working_set)], by its original indices
Enumerated(n) == [i \in 1..n |-> i - 1]

\* --------------------------------------------------------------- the prompts

\* A prompt that takes the empty response for its default, yes.
AffirmativeOrEmpty(r) == r = <<>> \/ StartsWith(Lower(r), YES)

\* response.lower().startswith('y')
Affirmative(r) == StartsWith(Lower(r), YES)

\* A prompt that compares without lower().
NegativeCaseSensitive(r) == StartsWith(r, NO)

\* response.lower().startswith('n')
Negative(r) == StartsWith(Lower(r), NO)

\* names[ID] raises IndexError
NameLookupFails(roster, id) == id # None /\ ~PyIndexOK(Len(roster), The(id))

\* ------------------------------------------------------------ the job and reduce

NoneResult == [none |-> TRUE, vals |-> <<>>]

\* job(*args): the caller's job; the job of original index 0 returns None
JobResult(j) == IF j = 0 THEN NoneResult ELSE [none |-> FALSE, vals |-> <<10 + j>>]

ReduceStart == <<[none |-> FALSE, vals |-> <<0>>]>>

\* reduce_function(current, result) raises
ReduceRaises(fn, cur, result) ==
    \/ fn = "raiser"
    \/ fn = "picky" /\ result.none

\* reduce_function(current, result), when it returns
ReduceValue(fn, cur, result) == Append(cur, result)

\* an except clause that starts the accumulator afresh
AfterReduceReset(fn, cur, result) ==
    IF ReduceRaises(fn, cur, result) THEN ReduceStart ELSE ReduceValue(fn, cur, result)

\* current after the try/except around the reduce_function call
AfterReduce(fn, cur, result) ==
    IF ReduceRaises(fn, cur, result) THEN cur ELSE ReduceValue(fn, cur, result)

\* ------------------------------------------------------------ the result files

HeaderLine(run) == [kind |-> "header", run |-> run, rec |-> <<>>]
RowLine(run, rec) == [kind |-> "row", run |-> run, rec |-> rec]

\* open_method(config['results']['file_name'], mode='at') opens this file
RowFile(section) ==
    IF section.compress THEN Append(section.file_name, ".gz") ELSE section.file_name

\* RESULTS_CSV.open('w'); f.write(CSV_HEADER.read_text() + '\n')
WriteHeader(files, run) == [files EXCEPT ![RESULTS_CSV] = <<HeaderLine(run)>>]

\* writerow, writing nothing for an empty record
AppendRowUnlessEmpty(files, section, line) ==
    IF line.rec = <<>> THEN files ELSE [files EXCEPT ![RowFile(section)] = Append(@, line)]

\* results_writer.writerow(...) on the file opened for appending
AppendRow(files, section, line) == [files EXCEPT ![RowFile(section)] = Append(@, line)]

\* meta, in the declared order
Meta(section, start, last, new, job_id) ==
    (IF section.include_start_time THEN <<start>> ELSE <<>>)
        \o (IF section.include_job_interval THEN <<new - last>> ELSE <<>>)
        \o (IF section.include_job_done_time THEN <<new>> ELSE <<>>)
        \o (IF section.include_job_id THEN <<job_id>> ELSE <<>>)

\* (*meta, *result), with result = () when the job returned None
Row(section, start, last, new, job_id, result) ==
    Meta(section, start, last, new, job_id) \o (IF result.none THEN <<>> ELSE result.vals)

NoFiles == [f \in ResultFiles |-> <<>>]

\* The result files an earlier run of one job under the same configuration has left.
EarlierRun(section) ==
    AppendRow(WriteHeader(NoFiles, "earlier"), section, RowLine("earlier", <<50>>))

\* -------------------------------------------------------------------- Init

\* The working directory when run_jobs is called: each configuration file is missing or
\* filled out, and the result files are absent or as an earlier run left them.
Init ==
    /\ pc = "make_config_files"
    /\ error = ""
    /\ exit_status = -1
    /\ config_files \in [ConfigNames -> {"absent", "user"}]
    /\ machines_json \in Rosters
    /\ results_section \in ResultsSections
    /\ result_files \in {NoFiles, EarlierRun(results_section)}
    /\ machines = <<>>
    /\ weights = <<>>
    /\ resp = <<>>
    /\ ID = None
    /\ reduce_function = "picky"
    /\ override_seed = None
    /\ lw = 0
    /\ TOTAL = 0
    /\ entropy = <<>>
    /\ seed = <<>>
    /\ indexed_set = <<>>
    /\ START = 0
    /\ STOP = 0
    /\ response = <<>>
    /\ num_cores = 0
    /\ setup_called = FALSE
    /\ clock = 0
    /\ start_time = 0
    /\ last_time = 0
    /\ current = <<>>
    /\ pending = {}
    /\ idx = 0
    /\ progress = <<0, 0>>
    /\ reduce_raised = 0
    /\ parsed = 0
    /\ shuffled = <<>>
    /\ arrivals = <<>>
    /\ steps = <<>>
    /\ peer = None
    /\ renicer = "unstarted"
    /\ renicer_next = 0
    /\ reniced = {}
    /\ niceness = 0
    /\ handler = "none"
    /\ backupCount = 0
    /\ log_file = None
    /\ log_archives = [i \in 1..MaxBackupCount |-> None]
    /\ log_zip = None
    /\ rollovers = 0

\* An exception leaves run_jobs.
Raise(e) ==
    /\ pc' = "halted"
    /\ error' = e

\* ----------------------------------------------------------------- actions

\* run_jobs, lines 172-174: make_config_files()
MakeConfigFiles ==
    /\ pc = "make_config_files"
    /\ config_files' = MakeConfigFilesResult(config_files)
    /\ IF AnyTriggered(config_files)
       THEN Raise("FileNotFoundError")
       ELSE pc' = "get_machines" /\ UNCHANGED error
    /\ UNCHANGED <<exit_status, machines_json, results_section, result_files, machines, weights,
                   identity, plan, response, num_cores, setup_called, loop, aside>>

\* run_jobs, lines 176-186: the roster and the configuration are read
GetMachines ==
    /\ pc = "get_machines"
    /\ machines' = machines_json
    /\ weights' = WeightsOf(machines_json)
    /\ pc' = "identity"
    /\ UNCHANGED <<error, exit_status, disk, result_files, identity, plan, response, num_cores,
                   setup_called, loop, aside>>

\* run_jobs, lines 188-199: one pass of the identity prompt
IdentityPrompt ==
    /\ pc = "identity"
    /\ \E r \in IdResponses :
        /\ resp' = r
        /\ IF r = NA
           THEN ID' = None /\ pc' = "plan"
           ELSE IF ParseInt(r) = None
                THEN UNCHANGED <<ID, pc>>
                ELSE ID' = Some(The(ParseInt(r))) /\ pc' = "plan"
    /\ UNCHANGED <<error, exit_status, disk, result_files, machines, weights, plan, response,
                   num_cores, setup_called, loop, aside>>

\* run_jobs, lines 201-221: the seed, the shuffle and this machine's range.  The caller's
\* working_set (by its length n) and override_seed are drawn here, where they are first read.
\* With a machine index and TOTAL = 0 the division of line 216 raises.
Plan ==
    /\ pc = "plan"
    /\ \E n \in 0..MaxJobs, o \in OverrideSeeds :
        LET ent == GetEntropy(machines_json, results_section, n)
            sd == SeedOf(o, ent)
            order == Shuffle(sd, Enumerated(n))
        IN  /\ lw' = n
            /\ shuffled' = order
            /\ override_seed' = o
            /\ TOTAL' = Sum(weights)
            /\ entropy' = ent
            /\ seed' = sd
            /\ IF ID # None
               THEN IF Sum(weights) = 0
                    THEN /\ Raise("ZeroDivisionError")
                         /\ START' = START
                         /\ STOP' = n
                         /\ indexed_set' = order
                    ELSE /\ START' = PlanStart(weights, The(ID), n)
                         /\ STOP' = PlanStop(weights, The(ID), n)
                         /\ indexed_set' = PySlice(order, START', STOP')
                         /\ pc' = "confirm"
                         /\ UNCHANGED error
               ELSE /\ START' = 0
                    /\ STOP' = n
                    /\ indexed_set' = order
                    /\ pc' = "confirm"
                    /\ UNCHANGED error
    /\ response' = <<>>
    /\ UNCHANGED <<exit_status, disk, result_files, machines, weights, identity, reduce_function,
                   num_cores, setup_called, loop, aside>>

\* run_jobs, lines 223-229: one pass of the confirmation prompt.  Formatting the prompt
\* evaluates names[ID], which raises IndexError for an ID outside the roster.
ConfirmPrompt ==
    /\ pc = "confirm"
    /\ IF NameLookupFails(machines, ID)
       THEN Raise("IndexError") /\ UNCHANGED <<response, exit_status>>
       ELSE \E r \in ConfirmResponses :
            /\ response' = r
            /\ IF Negative(r)
               THEN pc' = "exited" /\ exit_status' = 1 /\ error' = "SystemExit"
               ELSE /\ pc' = IF Affirmative(r) THEN "setup" ELSE "confirm"
                    /\ UNCHANGED <<error, exit_status>>
    /\ UNCHANGED <<disk, result_files, machines, weights, identity, plan, num_cores,
                   setup_called, loop, aside>>

\* run_jobs, lines 231-238: the pool size and the setup hook
Setup ==
    /\ pc = "setup"
    /\ num_cores' = IF ID = None THEN CpuCount ELSE PyIndex(machines, The(ID))[2]
    /\ setup_called' = TRUE
    /\ pc' = "open_results"
    /\ UNCHANGED <<error, exit_status, disk, result_files, machines, weights, identity, plan,
                   response, loop, aside>>

\* run_jobs, lines 240-244: the accumulator and the header.  The caller's reduce_function
\* is drawn here, where its accumulator is set up.
OpenResults ==
    /\ pc = "open_results"
    /\ start_time' = clock
    /\ last_time' = clock
    /\ clock' = clock + 1
    /\ \E fn \in ReduceFunctions : reduce_function' = fn
    /\ current' = ReduceStart
    /\ result_files' = WriteHeader(result_files, "this")
    /\ pc' = "pool"
    /\ UNCHANGED <<error, exit_status, disk, machines, weights, identity, override_seed, lw, TOTAL,
                   entropy, seed, shuffled, indexed_set, START, STOP, response, num_cores,
                   setup_called, pending, idx, progress, reduce_raised, parsed, arrivals, steps,
                   aside>>

\* run_jobs, lines 246-256: the pool takes the jobs of indexed_set
StartPool ==
    /\ pc = "pool"
    /\ pending' = {indexed_set[i] : i \in 1..Len(indexed_set)}
    /\ pc' = "running"
    /\ UNCHANGED <<error, exit_status, disk, result_files, machines, weights, identity, plan,
                   response, num_cores, setup_called, clock, start_time, last_time, current, idx,
                   progress, reduce_raised, parsed, arrivals, steps, aside>>

\* the report, with the length of this machine's slice for its total
ProgressReportOfSlice(k, working, slice) == <<k, slice>>

\* run_jobs, line 257: logger.info("Answer received: %i/%i ...", idx, len(working_set), ...),
\* where working and slice are len(working_set) and len(indexed_set)
ProgressReport(k, working, slice) == <<k, working>>

\* The loop body in the order of its statements: the reduce_function call (lines 258-268), the
\* row (lines 280-291), the parse_function call (line 292); each with the number of lines the
\* row file holds when the statement has run.
CompletionSteps(section, before, after) ==
    << <<"reduce", Len(before[RowFile(section)])>>,
       <<"row", Len(after[RowFile(section)])>>,
       <<"parse", Len(after[RowFile(section)])>> >>

\* run_jobs, lines 250-293: the body of the completion loop, for the completion of job_id
Completion(job_id) ==
    LET result == JobResult(job_id)
        new_time == clock
    IN  /\ idx' = idx + 1
        /\ progress' = ProgressReport(idx + 1, lw, Len(indexed_set))
        /\ current' = AfterReduce(reduce_function, current, result)
        /\ reduce_raised' = reduce_raised + Bit(ReduceRaises(reduce_function, current, result))
        /\ clock' = clock + 1
        /\ result_files' =
              AppendRow(result_files, results_section,
                        RowLine("this", Row(results_section, start_time, last_time, new_time,
                                            job_id, result)))
        /\ parsed' = parsed + 1
        /\ last_time' = new_time
        /\ arrivals' = Append(arrivals, job_id)
        /\ steps' = CompletionSteps(results_section, result_files, result_files')

\* the pool reports a completion, in any order
Complete ==
    /\ pc = "running"
    /\ \E job_id \in pending :
        /\ Completion(job_id)
        /\ pending' = pending \ {job_id}
    /\ UNCHANGED <<pc, error, exit_status, disk, machines, weights, identity, plan, response,
                   num_cores, setup_called, start_time, aside>>

\* ProgressPool.istarmap_unordered, as the specification describes the pool: the exception
\* of a job that raised comes out of the iterator when the consumer asks for the next
\* completion; _indexed_job (lines 156-157) lets it through.
IteratorRaises(jobs) == jobs # {}

\* a try that encloses the for statement as well
TryCoversLoop(statement) == statement \in {"next", "reduce"}

\* run_jobs, lines 250-268: the try of line 258 encloses the reduce_function call only, not
\* the for statement of line 250 that asks the iterator for the next completion.
TryCovers(statement) == statement = "reduce"

\* the job callable raises: the exception comes out of the completion iterator in the for
\* statement.  Under an except clause it would be logged like a reduction failure and dropped.
JobRaises ==
    /\ pc = "running"
    /\ IteratorRaises(pending)
    /\ IF TryCovers("next")
       THEN /\ \E job_id \in pending : pending' = pending \ {job_id}
            /\ reduce_raised' = reduce_raised + 1
            /\ UNCHANGED <<pc, error, clock, start_time, last_time, current, idx, progress,
                           parsed, arrivals, steps>>
       ELSE /\ Raise("JobError")
            /\ UNCHANGED loop
    /\ UNCHANGED <<exit_status, disk, result_files, machines, weights, identity, plan, response,
                   num_cores, setup_called, aside>>

\* run_jobs, line 294: every job has completed
Return ==
    /\ pc = "running"
    /\ pending = {}
    /\ pc' = "done"
    /\ UNCHANGED <<error, exit_status, disk, result_files, machines, weights, identity, plan,
                   response, num_cores, setup_called, loop, aside>>

Next ==
    \/ MakeConfigFiles
    \/ GetMachines
    \/ IdentityPrompt
    \/ Plan
    \/ ConfirmPrompt
    \/ Setup
    \/ OpenResults
    \/ StartPool
    \/ Complete
    \/ JobRaises
    \/ Return

Spec == Init /\ [][Next]_vars

\* ------------------------------------------------------------ the renicer thread

\* The renicer thread has been started (line 249): run_jobs is in its completion loop or has
\* left it; the thread is a daemon and lives on.
RenicerStarted == pc \in {"running", "done"} \/ (pc = "halted" /\ error = "JobError")

\* an except clause that lets the failure end the thread
RenicerFailureEndsThread == "dead"

\* renicer_thread, lines 140-142: except Exception: break leaves the for loop, for sleep(3)
RenicerAfterFailure == "sleep"

\* Thread(target=renicer_thread, args=(p, ), daemon=True).start(): the thread enters its loop
RenicerStart ==
    /\ RenicerStarted
    /\ renicer = "unstarted"
    /\ renicer' = "nice"
    /\ UNCHANGED <<renicer_next, reniced, niceness, coordinator>>

\* renicer_thread, lines 137 and 144-145: on a platform without os.nice the name nice is
\* not bound (lines 25-28); the first nice(19) raises NameError and the thread returns.
RenicerNoNice ==
    /\ renicer = "nice"
    /\ niceness = 0
    /\ renicer' = "returned"
    /\ UNCHANGED <<renicer_next, reniced, niceness, coordinator>>

\* renicer_thread, lines 137-138: nice(19), then the for loop over pool._pool starts
RenicerNice ==
    /\ renicer = "nice"
    /\ niceness' = IF niceness + 19 > 19 THEN 19 ELSE niceness + 19
    /\ renicer' = "renice"
    /\ renicer_next' = 0
    /\ UNCHANGED <<reniced, coordinator>>

\* renicer_thread, lines 138-140: renice of the next worker process
RenicerRenice ==
    /\ renicer = "renice"
    /\ renicer_next < num_cores
    /\ reniced' = reniced \cup {renicer_next + 1}
    /\ renicer_next' = renicer_next + 1
    /\ UNCHANGED <<renicer, niceness, coordinator>>

\* renicer_thread, lines 139-142: run(['renice', ...]) raises
RenicerReniceFails ==
    /\ renicer = "renice"
    /\ renicer_next < num_cores
    /\ renicer' = RenicerAfterFailure
    /\ UNCHANGED <<renicer_next, reniced, niceness, coordinator>>

\* renicer_thread, lines 138 and 143: the for loop is through pool._pool
RenicerPassEnds ==
    /\ renicer = "renice"
    /\ renicer_next = num_cores
    /\ renicer' = "sleep"
    /\ UNCHANGED <<renicer_next, reniced, niceness, coordinator>>

\* renicer_thread, lines 136 and 143: sleep(3) returns, the while loop goes round
RenicerSleep ==
    /\ renicer = "sleep"
    /\ renicer' = "nice"
    /\ UNCHANGED <<renicer_next, reniced, niceness, coordinator>>

Renicer ==
    \/ RenicerStart
    \/ RenicerNoNice
    \/ RenicerNice
    \/ RenicerRenice
    \/ RenicerReniceFails
    \/ RenicerPassEnds
    \/ RenicerSleep

\* One machine in the roster, its configuration files in place, no results yet.
ThrottleInit ==
    /\ Init
    /\ \A f \in ConfigNames : config_files[f] = "user"
    /\ Len(machines_json) = 1
    /\ result_files = NoFiles

ThrottleNext ==
    \/ MakeConfigFiles
    \/ GetMachines
    \/ IdentityPrompt
    \/ Plan
    \/ ConfirmPrompt
    \/ Setup
    \/ OpenResults
    \/ StartPool
    \/ Complete
    \/ JobRaises
    \/ Return
    \/ RenicerStart
    \/ RenicerNoNice
    \/ RenicerNice
    \/ RenicerRenice
    \/ RenicerReniceFails
    \/ RenicerPassEnds
    \/ RenicerSleep

SpecThrottle == ThrottleInit /\ [][ThrottleNext]_vars

\* ------------------------------------------------------------ the log handler

\* What a log file holds: the records written since the rollover that started it.
LogContent(started, records) == [started |-> started, records |-> records]

\* An entry of a zip file: an entry named 0 is named basename, an entry named i > 0 is
\* named basename.i, with i filled with zeros to the width of backupCount.
ZipEntry(name, content) == [name |-> name, content |-> content]

\* RotatingFileHandler.doRollover, the loop over range(backupCount - 1, 0, -1):
\* baseFilename.i.zip, where it exists, replaces baseFilename.(i+1).zip.
RECURSIVE ShiftArchives(_, _)
ShiftArchives(archives, i) ==
    IF i < 1 THEN archives
    ELSE IF archives[i] # None
         THEN ShiftArchives([archives EXCEPT ![i + 1] = archives[i], ![i] = None], i - 1)
         ELSE ShiftArchives(archives, i - 1)

\* close, lines 26-29: the archives the loop over range(1, backupCount) gets to, which stops
\* at the first one that does not exist
RECURSIVE Folded(_, _, _)
Folded(archives, count, i) ==
    IF i >= count \/ archives[i] = None THEN {}
    ELSE {i} \cup Folded(archives, count, i + 1)

\* The entries close writes: the log file under basename (lines 21-23), then each folded
\* archive's entry under basename.i (lines 30-31).
RECURSIVE FoldedEntries(_, _, _)
FoldedEntries(archives, count, i) ==
    IF i \notin Folded(archives, count, 1) THEN <<>>
    ELSE <<ZipEntry(i, The(archives[i]))>> \o FoldedEntries(archives, count, i + 1)

\* __init__, lines 7-9: RotatingFileHandler.__init__ opens baseFilename for appending
LogOpen ==
    /\ handler = "none"
    /\ handler' = "open"
    /\ backupCount' \in 0..MaxBackupCount
    /\ log_file' = Some(LogContent(0, 0))
    /\ UNCHANGED <<log_archives, log_zip, rollovers, coordinator_run, throttle>>

\* emit: a record goes to the log file
LogEmit ==
    /\ handler = "open"
    /\ The(log_file).records < MaxRecords
    /\ log_file' = Some(LogContent(The(log_file).started, The(log_file).records + 1))
    /\ UNCHANGED <<handler, backupCount, log_archives, log_zip, rollovers, coordinator_run,
                   throttle>>

\* RotatingFileHandler.doRollover with rotation_filename (lines 14-15) and rotator (lines
\* 35-43): the archives move up by one, the log file is zipped into baseFilename.1.zip and
\* removed, and a new log file is opened.  With backupCount = 0 the log file is reopened.
LogRollover ==
    /\ handler = "open"
    /\ rollovers < MaxRollovers
    /\ rollovers' = rollovers + 1
    /\ IF backupCount > 0
       THEN /\ log_archives' =
                  [ShiftArchives(log_archives, backupCount - 1) EXCEPT ![1] = log_file]
            /\ log_file' = Some(LogContent(rollovers + 1, 0))
       ELSE UNCHANGED <<log_archives, log_file>>
    /\ UNCHANGED <<handler, backupCount, log_zip, coordinator_run, throttle>>

\* close, lines 17-33
LogClose ==
    /\ handler = "open"
    /\ handler' = "closed"
    /\ log_zip' = Some(<<ZipEntry(0, The(log_file))>>
                           \o FoldedEntries(log_archives, backupCount, 1))
    /\ log_file' = None
    /\ log_archives' =
          [i \in 1..MaxBackupCount |->
              IF i \in Folded(log_archives, backupCount, 1) THEN None ELSE log_archives[i]]
    /\ UNCHANGED <<backupCount, rollovers, coordinator_run, throttle>>

\* The handler on its own: run_jobs is not called.
LogInit ==
    /\ Init
    /\ \A f \in ConfigNames : config_files[f] = "absent"
    /\ machines_json = <<>>
    /\ results_section.file_name = RESULTS_CSV
    /\ ~results_section.compress
    /\ result_files = NoFiles

LogNext ==
    \/ LogOpen
    \/ LogEmit
    \/ LogRollover
    \/ LogClose

SpecLog == LogInit /\ [][LogNext]_vars

\* ------------------------------------------------------------ two machines

\* What a run shows, or has computed, when it reaches its confirmation prompt.
AtPrompt ==
    [machines_json |-> machines_json, results_section |-> results_section, lw |-> lw,
     override_seed |-> override_seed, ID |-> ID, entropy |-> entropy, seed |-> seed,
     shuffled |-> shuffled, indexed_set |-> indexed_set, START |-> START, STOP |-> STOP]

\* Both machines have their configuration files, and no results yet.
TwoRunsInit ==
    /\ Init
    /\ \A f \in ConfigNames : config_files[f] = "user"
    /\ result_files = NoFiles

\* run_jobs, lines 188-199, where the operator answers N/A or with an index of the roster.
TwoRunsIdentityPrompt == IdentityPrompt /\ ~NameLookupFails(machines, ID')

\* run_jobs, lines 160-171, called on a second machine while the first one waits at its
\* confirmation prompt (lines 223-229).  The second machine has the same roster; its
\* runner.config is the same, byte for byte, or differs in the compress key.
NextMachine ==
    /\ pc = "confirm"
    /\ peer = None
    /\ peer' = Some(AtPrompt)
    /\ results_section' \in {results_section, [results_section EXCEPT !.compress = ~@]}
    /\ pc' = "make_config_files"
    /\ machines' = <<>>
    /\ weights' = <<>>
    /\ resp' = <<>>
    /\ ID' = None
    /\ override_seed' = None
    /\ lw' = 0
    /\ TOTAL' = 0
    /\ entropy' = <<>>
    /\ seed' = <<>>
    /\ shuffled' = <<>>
    /\ indexed_set' = <<>>
    /\ START' = 0
    /\ STOP' = 0
    /\ response' = <<>>
    /\ UNCHANGED <<error, exit_status, config_files, machines_json, result_files, reduce_function,
                   num_cores, setup_called, loop, throttle, logs>>

\* run_jobs, lines 201-220, where the second machine is given a working set as long as the
\* first one's.
TwoRunsPlan == Plan /\ (peer # None => lw' = The(peer).lw)

TwoRunsNext ==
    \/ MakeConfigFiles
    \/ GetMachines
    \/ TwoRunsIdentityPrompt
    \/ TwoRunsPlan
    \/ NextMachine

SpecTwoRuns == TwoRunsInit /\ [][TwoRunsNext]_vars

\* ------------------------------------------------------------------ claims

\* The positions of run_jobs before its range is planned.
PrePlan == {"make_config_files", "get_machines", "identity", "plan"}

\* run_jobs has just computed START and STOP for a machine index of the roster: it is
\* about to ask for confirmation (the later steps change none of weights, lw, ID, START, STOP).
RangeComputed ==
    /\ pc = "confirm"
    /\ ID # None
    /\ The(ID) \in 0..(Len(weights) - 1)

\* The range the code computes for machine index i of the loaded roster.
RangeOf(i) == <<PlanStart(weights, i, lw), PlanStop(weights, i, lw)>>

InRange(x, r) == r[1] <= x /\ x < r[2]

\* C1: whenever run_jobs has computed the range of a roster index, the ranges it computes
\* for the indices 0..len(W)-1 of that roster and working-set length are pairwise disjoint,
\* have non-decreasing bounds from one machine to the next, and cover exactly [0, L); a
\* machine of weight zero gets an empty range.
C1_RangesTile ==
    RangeComputed =>
        LET n == Len(weights)
            R == [i \in 0..(n - 1) |-> RangeOf(i)]
        IN  /\ <<START, STOP>> = R[The(ID)]
            /\ \A i \in 0..(n - 1) :
                /\ 0 <= R[i][1]
                /\ R[i][1] <= R[i][2]
                /\ R[i][2] <= lw
                /\ weights[i + 1] = 0 => R[i][1] = R[i][2]
            /\ \A i \in 0..(n - 2) :
                /\ R[i][1] <= R[i + 1][1]
                /\ R[i][2] <= R[i + 1][2]
            /\ \A i, j \in 0..(n - 1) :
                i # j => \A x \in 0..(lw - 1) : ~(InRange(x, R[i]) /\ InRange(x, R[j]))
            /\ \A x \in 0..(lw - 1) : \E i \in 0..(n - 1) : InRange(x, R[i])

\* A second machine of two owns a proper, non-empty tail of the working set.
C1_Witness ==
    /\ RangeComputed
    /\ 0 < START
    /\ START < STOP
    /\ \E i \in 1..Len(weights) : weights[i] # weights[1]

\* The reference planner of the specification, computed without the code's operators.
RECURSIVE RefCumulative(_, _)
RefCumulative(roster, i) ==
    IF i = 0 THEN 0 ELSE RefCumulative(roster, i - 1) + roster[i][1] * roster[i][2]

RefFloor(a, b) == CHOOSE q \in 0..a : q * b <= a /\ a < (q + 1) * b

RefPlan(roster, i, n) ==
    LET total == RefCumulative(roster, Len(roster))
    IN  <<RefFloor(RefCumulative(roster, i) * n, total),
          RefFloor(RefCumulative(roster, i + 1) * n, total)>>

\* The range the code computes for machine index i of a roster and n items.
CodePlan(roster, i, n) ==
    <<PlanStart(WeightsOf(roster), i, n), PlanStop(WeightsOf(roster), i, n)>>

\* C2: the range run_jobs computes for a roster index equals the reference planner's
\* floor(sum(weights[0:i]) * L / TOTAL), floor(sum(weights[0:i+1]) * L / TOTAL); with no
\* machine index it is (0, L); the two rosters the specification gives as examples get
\* [0,5), [5,10) and [0,2), [2,8).
C2_MatchesReference ==
    pc = "confirm" =>
        /\ RangeComputed => <<START, STOP>> = RefPlan(machines, The(ID), lw)
        /\ ID = None => (START = 0 /\ STOP = lw)
        /\ CodePlan(<<<<1, 4>>, <<1, 4>>>>, 0, 10) = <<0, 5>>
        /\ CodePlan(<<<<1, 4>>, <<1, 4>>>>, 1, 10) = <<5, 10>>
        /\ CodePlan(<<<<1, 2>>, <<3, 2>>>>, 0, 8) = <<0, 2>>
        /\ CodePlan(<<<<1, 2>>, <<3, 2>>>>, 1, 8) = <<2, 8>>

\* The first of two unequal machines owns a range whose upper bound was rounded down.
C2_Witness ==
    /\ RangeComputed
    /\ The(ID) = 0
    /\ Len(weights) = 2
    /\ (weights[1] * lw) % TOTAL # 0
    /\ STOP > 0

\* The file the rows of this run are appended to, and the number of rows a file holds.
RowStore == result_files[RowFile(results_section)]

RowCount(f) == Cardinality({i \in 1..Len(f) : f[i].kind = "row"})

RowsOfThisRun(f) == Cardinality({i \in 1..Len(f) : f[i].kind = "row" /\ f[i].run = "this"})

\* The completion loop has been entered.
InLoop == pc \in {"running", "done"} \/ (pc = "halted" /\ error = "JobError")

\* C3: a reduce_function call that raises leaves the accumulator as it was and the loop
\* goes on, the completion still gets its row; with a reduce_function that raises on every
\* call all N jobs complete, run_jobs returns reduce_start and the result store holds N rows.
C3_ReductionFailureIsolated ==
    /\ InLoop => Len(current) = Len(ReduceStart) + idx - reduce_raised
    /\ InLoop => RowsOfThisRun(RowStore) = idx
    /\ (InLoop /\ reduce_function = "raiser") => (current = ReduceStart /\ reduce_raised = idx)
    /\ (pc = "done" /\ reduce_function = "raiser") =>
          /\ idx = Len(indexed_set)
          /\ RowCount(RowStore) = Len(indexed_set)

\* C3 with the store's rows counted from what this run appended: the part of the claim that
\* does not depend on the file having been recreated.
C3_HoldsForRowsOfThisRun ==
    /\ InLoop => Len(current) = Len(ReduceStart) + idx - reduce_raised
    /\ InLoop => RowsOfThisRun(RowStore) = idx
    /\ (InLoop /\ reduce_function = "raiser") => (current = ReduceStart /\ reduce_raised = idx)
    /\ (pc = "done" /\ reduce_function = "raiser") =>
          /\ idx = Len(indexed_set)
          /\ RowsOfThisRun(RowStore) = Len(indexed_set)

\* C4: after k processed completions the result store holds exactly k rows, the header aside.
C4_RowsEqualCompletions == InLoop => RowCount(RowStore) = idx

\* C5: once the run has (re)created the result file, the file the rows go to starts with
\* this run's header and every following line is a row of this run.
C5_HeaderThenRowsOfThisRun ==
    pc \in {"pool", "running", "done"} =>
        /\ RowStore # <<>>
        /\ RowStore[1] = HeaderLine("this")
        /\ \A i \in 2..Len(RowStore) : RowStore[i].kind = "row" /\ RowStore[i].run = "this"

\* The response starts with one of the characters of S.
FirstIs(r, S) == r # <<>> /\ r[1] \in S

\* The run has written a result file, invoked the setup hook or submitted a job.
SideEffects ==
    \/ setup_called
    \/ pending # {}
    \/ idx > 0
    \/ \E f \in ResultFiles : \E i \in 1..Len(result_files[f]) : result_files[f][i].run = "this"

\* C6: the setup hook is not invoked, the result file is not written and no job is submitted
\* until the response to the confirmation prompt starts with 'y' or 'Y'; a response that
\* starts with 'n' or 'N' ends the process with exit status 1 before any of them.
C6_NothingBeforeConfirmation ==
    /\ (SideEffects \/ pc \in {"setup", "open_results", "pool", "running", "done"}) =>
          FirstIs(response, {"y", "Y"})
    /\ FirstIs(response, {"n", "N"}) => (pc = "exited" /\ exit_status = 1 /\ ~SideEffects)

\* Jobs are in the pool after the operator answered "Yes".
C6_Witness ==
    /\ pc = "running"
    /\ pending # {}
    /\ response = <<"Y", "e", "s">>

\* C7, as claimed: every pass of the confirmation prompt whose response does not start with
\* 'y' halts the process with a non-zero outcome.
C7_AnyNonAffirmativeHalts ==
    [][(pc = "confirm" /\ pc' # "halted" /\ ~FirstIs(response', {"y", "Y"}))
          => (pc' = "exited" /\ exit_status' > 0)]_vars

\* C7, amended: a response that starts with 'n' or 'N' halts the process with exit status 1;
\* a response that starts with neither 'y' nor 'n', the empty response included, halts
\* nothing: the prompt is repeated and nothing else changes.
C7_OnlyNegativeHalts ==
    [][(pc = "confirm" /\ pc' # "halted") =>
          IF FirstIs(response', {"n", "N"})
          THEN pc' = "exited" /\ exit_status' = 1
          ELSE IF FirstIs(response', {"y", "Y"})
               THEN pc' = "setup" /\ exit_status' = -1
               ELSE /\ pc' = "confirm"
                    /\ exit_status' = -1
                    /\ UNCHANGED <<error, setup_called, pending, idx, result_files>>]_vars

\* The prompt is up again after the operator answered "maybe".
C7_Witness ==
    /\ pc = "confirm"
    /\ response = <<"m", "a", "y", "b", "e">>
    /\ exit_status = -1

\* C8: run_jobs leaves the identity step only with no identity or with an index of the roster,
\* and no response to the identity prompt makes it raise later.
C8_IdentityIsSentinelOrIndex ==
    /\ pc \notin {"make_config_files", "get_machines", "identity"} =>
          (ID = None \/ The(ID) \in 0..(Len(machines) - 1))
    /\ error # "IndexError"

\* C9: with a roster of total weight 0 the run never gets past the confirmation: no setup
\* hook, no result file, no job submitted, whichever identity was selected.
C9_ZeroTotalHalts ==
    (pc \notin PrePlan /\ TOTAL = 0) =>
        /\ pc \in {"confirm", "halted", "exited"}
        /\ ~SideEffects

\* C10: make_config_files creates every missing configuration file from its template and
\* leaves every existing one unchanged; if any was missing run_jobs halts there with
\* FileNotFoundError, the roster unread, no prompt answered, nothing submitted, and takes no
\* further step; if none was missing no file changes and the run goes on to read the roster;
\* no later step changes a configuration file.
C10_MissingConfigurationHalts ==
    [][/\ pc = "make_config_files" =>
            /\ \A n \in ConfigNames :
                  config_files'[n] = IF config_files[n] = "absent" THEN "template"
                                     ELSE config_files[n]
            /\ IF \E n \in ConfigNames : config_files[n] = "absent"
               THEN /\ pc' = "halted"
                    /\ error' = "FileNotFoundError"
                    /\ UNCHANGED <<machines, weights, resp, ID, response, pending, idx,
                                   setup_called, result_files>>
               ELSE /\ pc' = "get_machines"
                    /\ error' = ""
                    /\ config_files' = config_files
       /\ pc # "make_config_files" => UNCHANGED disk
       /\ pc # "halted"]_vars

\* The run has halted having created some files and found others.
C10_Witness ==
    /\ pc = "halted"
    /\ error = "FileNotFoundError"
    /\ \E n \in ConfigNames : config_files[n] = "template"
    /\ \E n \in ConfigNames : config_files[n] = "user"
    /\ machines = <<>>

\* The other machine's run, as it stood at its confirmation prompt.
Other == The(peer)

\* Two runs have reached their confirmation prompts: this one and the other machine's.
TwoAtPrompt == pc = "confirm" /\ peer # None

\* Every configuration file has the same bytes on both machines.
SameConfigurationBytes ==
    \A name \in ConfigNames :
        FileBytes(name, Other.machines_json, Other.results_section)
            = FileBytes(name, machines_json, results_section)

\* A machine index as a position of the roster: a negative one counts from the end.
Position(id) == IF The(id) < 0 THEN The(id) + Len(machines) ELSE The(id)

C12_OverrideSeedDrivesShuffle ==
    (/\ TwoAtPrompt
     /\ override_seed # None
     /\ Other.override_seed = override_seed
     /\ Other.lw = lw)
        => /\ seed = The(override_seed)
           /\ Other.shuffled = shuffled

\* C12, for the override seeds that are not empty.
C12_HoldsForNonEmptySeeds ==
    (/\ TwoAtPrompt
     /\ override_seed # None
     /\ The(override_seed) # <<>>
     /\ Other.override_seed = override_seed
     /\ Other.lw = lw)
        => /\ seed = The(override_seed)
           /\ Other.shuffled = shuffled

C14_JobFailurePropagates ==
    [][JobRaises
         => /\ pc' = "halted"
            /\ error' = "JobError"
            /\ UNCHANGED <<current, reduce_raised, result_files, parsed, idx, arrivals, steps>>
            /\ RowsOfThisRun(RowStore') = idx]_vars

\* A job has raised after two completions were processed, and their rows are in the file.
C14_Witness ==
    /\ pc = "halted"
    /\ error = "JobError"
    /\ idx = 2
    /\ parsed = 2
    /\ RowsOfThisRun(RowStore) = 2

\* The left fold of reduce_function over the results of the jobs js, in that order, from
\* reduce_start, the calls that raise skipped.
RECURSIVE RefFold(_, _)
RefFold(fn, js) ==
    IF js = <<>> THEN ReduceStart
    ELSE LET before == RefFold(fn, SubSeq(js, 1, Len(js) - 1))
             result == JobResult(js[Len(js)])
         IN  IF ReduceRaises(fn, before, result) THEN before
             ELSE ReduceValue(fn, before, result)

\* The number of meta fields the configuration puts in front of a result.
MetaFields ==
    Bit(results_section.include_start_time) + Bit(results_section.include_job_interval)
        + Bit(results_section.include_job_done_time) + Bit(results_section.include_job_id)

\* The row of the k-th completion of this run.
RowOfCompletion(k) == RowStore[Len(RowStore) - idx + k].rec

\* C16: run_jobs returns the left fold of reduce_function over the results in the order the
\* completions arrived, from reduce_start, with one call per completed job and the calls that
\* raised skipped; a result of None goes to reduce_function as it is (a reduce_function that
\* raises on None raises for it) and its row holds the meta fields only.
C16_ReturnsFoldInArrivalOrder ==
    pc = "done"
        => /\ current = RefFold(reduce_function, arrivals)
           /\ Len(arrivals) = idx
           /\ (Len(current) - Len(ReduceStart)) + reduce_raised = idx
           /\ reduce_function = "picky"
                => reduce_raised = Cardinality({k \in 1..idx : JobResult(arrivals[k]).none})
           /\ \A k \in 1..idx :
                 Len(RowOfCompletion(k))
                     = MetaFields + Len(JobResult(arrivals[k]).vals)

\* run_jobs has returned after three completions that did not arrive in the order of their
\* indices, the job that returns None among them, and one reduce_function call raised.
C16_Witness ==
    /\ pc = "done"
    /\ idx = 3
    /\ reduce_function = "picky"
    /\ reduce_raised = 1
    /\ arrivals[1] > arrivals[2]
    /\ arrivals[2] = 0
    /\ Len(current) = Len(ReduceStart) + 2

\* The elements of a sequence.
Elements(s) == {s[i] : i \in 1..Len(s)}

\* The original indices of the shuffled items at the positions START, ..., STOP - 1.
PlannedJobs == {shuffled[i] : i \in (START + 1)..STOP}

\* C17: the job ids are the original indices 0, ..., len(working_set) - 1 of the jobs; the
\* job ids of the processed completions are pairwise distinct, those of the jobs at the shuffled
\* positions START, ..., STOP - 1 and, when run_jobs returns, all of them; with
\* include_job_id the row of a completion holds its job id, next to the result of the job of
\* that original index.
C17_JobIdsAreOriginalIndices ==
    pc \in {"running", "done"}
        => /\ Len(shuffled) = lw
           /\ Elements(shuffled) = 0..(lw - 1)
           /\ Cardinality(Elements(arrivals)) = Len(arrivals)
           /\ Elements(arrivals) \cap pending = {}
           /\ Elements(arrivals) \cup pending = PlannedJobs
           /\ pc = "done" => Elements(arrivals) = PlannedJobs
           /\ \A k \in 1..idx :
                 /\ results_section.include_job_id
                      => RowOfCompletion(k)[MetaFields] = arrivals[k]
                 /\ SubSeq(RowOfCompletion(k), MetaFields + 1, Len(RowOfCompletion(k)))
                      = JobResult(arrivals[k]).vals

\* A machine of the roster has processed its partition, which starts after the first shuffled
\* position, in another order than the shuffled one, and has written the job ids.
C17_Witness ==
    /\ pc = "done"
    /\ ID # None
    /\ START >= 1
    /\ idx = 2
    /\ results_section.include_job_id
    /\ shuffled # Enumerated(lw)
    /\ arrivals[1] = shuffled[START + 2]
    /\ arrivals[1] > arrivals[2]

\* C18: after the k-th completion the progress report is (k, L), with k the number of
\* completions processed so far and L the length of the whole working set; on a machine with
\* a partition of S < L jobs the last report is (S, L), short of 100 percent.
C18_ProgressCountsAgainstWorkingSet ==
    (InLoop /\ idx >= 1)
        => /\ progress = <<Len(arrivals), lw>>
           /\ progress[1] <= Len(indexed_set)
           /\ pc = "done" => progress[1] = Len(indexed_set)
           /\ Len(indexed_set) < lw => 100 * progress[1] < 100 * progress[2]

\* A machine of the roster has processed its partition of two jobs out of three.
C18_Witness ==
    /\ pc = "done"
    /\ ID # None
    /\ Len(indexed_set) = 2
    /\ lw = 3
    /\ progress = <<2, 3>>

\* C19: the renicer thread runs next to the completion loop and leaves its outcome alone.  A
\* step of the thread changes nothing of the coordinator; a renice that fails is swallowed:
\* the thread goes to its sleep, from which the next pass starts, and the coordinator sees no
\* error; where nice is missing the thread returns and has lowered no priority; whatever the
\* thread does, the coordinator can take the next completion, and what run_jobs returns and has
\* written is what the completions in their order of arrival give.
C19_ThrottleLeavesOutcomeAlone ==
    /\ [][throttle' # throttle => UNCHANGED coordinator]_vars
    /\ [][RenicerReniceFails => renicer' = "sleep" /\ pc' = pc /\ error' = error]_vars
    /\ [][RenicerNoNice => renicer' = "returned" /\ UNCHANGED <<reniced, niceness>>]_vars
    /\ [](renicer = "sleep" => ENABLED RenicerSleep)
    /\ [](renicer = "returned" => reniced = {} /\ niceness = 0 /\ ~ENABLED Renicer)
    /\ []((pc = "running" /\ pending # {}) => ENABLED Complete)
    /\ [](pc = "done" => /\ current = RefFold(reduce_function, arrivals)
                         /\ RowCount(RowStore) = Len(indexed_set))

\* In the middle of the completion loop, the thread sleeps after a renice that failed in a
\* pass later than its first.
C19_Witness ==
    /\ pc = "running"
    /\ idx >= 1
    /\ pending # {}
    /\ renicer = "sleep"
    /\ renicer_next < num_cores
    /\ reniced # {}

\* The entries of baseFilename.zip.
Entries == The(log_zip)

\* The numbered archives baseFilename.i.zip on disk.
StandaloneArchives == {i \in 1..MaxBackupCount : log_archives[i] # None}

\* After close there is baseFilename.zip, its entries have distinct names, the first holds
\* what the log file held, and neither the log file nor a numbered archive is left.
OneArchiveOnly ==
    /\ log_zip # None
    /\ Len(Entries) >= 1
    /\ \A i, j \in 1..Len(Entries) : Entries[i].name = Entries[j].name => i = j
    /\ Entries[1].name = 0
    /\ Entries[1].content.started = (IF backupCount > 0 THEN rollovers ELSE 0)
    /\ log_file = None
    /\ StandaloneArchives = {}

\* C15: after close, whatever the number of rollovers before it, there is exactly one zip
\* file for the log, with the current content and the prior rotations as distinct entries, no
\* plaintext log file and no numbered archive; after three rollovers with backupCount = 3 the
\* zip file has three entries.
C15_CloseLeavesOneArchive ==
    handler = "closed"
        => /\ OneArchiveOnly
           /\ (backupCount = 3 /\ rollovers = 3) => Len(Entries) = 3

\* C15 holds for the handlers closed after fewer rollovers than backupCount, or with
\* backupCount = 0: the zip file then holds the log file and every rotation.
C15_HoldsBelowBackupCount ==
    (handler = "closed" /\ (rollovers < backupCount \/ backupCount = 0))
        => /\ OneArchiveOnly
           /\ backupCount > 0 => Len(Entries) = 1 + rollovers

\* After as many rollovers as backupCount, or more, close leaves the oldest archive,
\* baseFilename.backupCount.zip, next to baseFilename.zip.
C15_OldestArchiveIsLeft ==
    (handler = "closed" /\ backupCount > 0 /\ rollovers >= backupCount)
        => /\ StandaloneArchives = {backupCount}
           /\ Len(Entries) = backupCount
           /\ log_file = None

\* The two runs are on different machines of the roster.
DifferentMachines == ID # None /\ Other.ID # None /\ Position(Other.ID) # Position(ID)

\* The two runs have shuffled into the same order, and on different machines of the roster
\* their slices share no job.
SameShuffleDisjointSlices ==
    /\ Other.shuffled = shuffled
    /\ DifferentMachines => Elements(Other.indexed_set) \cap Elements(indexed_set) = {}

\* C20: two runs that show the same checksum and the same total size at their confirmation
\* prompts have shuffled into the same order, whatever override_seed each was given, so that
\* different machines have slices that do not overlap.
C20_ChecksumIdentifiesShuffle ==
    (/\ TwoAtPrompt
     /\ Other.entropy = entropy
     /\ Other.lw = lw)
        => SameShuffleDisjointSlices

\* C20, for two runs that were given the same override_seed, or none.
C20_ChecksumAndOverrideIdentifyShuffle ==
    (/\ TwoAtPrompt
     /\ Other.entropy = entropy
     /\ Other.lw = lw
     /\ Other.override_seed = override_seed)
        => SameShuffleDisjointSlices

\* Two runs with the same checksum, total size and override_seed, on different machines of
\* the roster, each with jobs in its slice, after a shuffle that moved the jobs.
C20_Witness ==
    /\ TwoAtPrompt
    /\ Other.entropy = entropy
    /\ Other.lw = lw
    /\ Other.override_seed = override_seed
    /\ override_seed = Some(<<7>>)
    /\ DifferentMachines
    /\ indexed_set # <<>>
    /\ Other.indexed_set # <<>>
    /\ shuffled # Enumerated(lw)

====
